---- MODULE Spec2Model ----
(***************************************************************************)
(* Espora: the append-only paged log store (espora-db) and the account     *)
(* ledgers built on it (rinha-espora-embedded, rinha-espora-server, src).  *)
(*                                                                         *)
(* Byte vectors are modelled at slot granularity.  A slot is a record      *)
(* [size, payload]: size is the 8-byte big-endian length prefix, payload   *)
(* the encoded row; the zero padding of a slot is implicit.  A byte vector *)
(* is the sequence of its whole slots together with its length in bytes.   *)
(***************************************************************************)
EXTENDS Integers, Sequences, FiniteSets, TLC

VARIABLES debug, file, db, lock, pc, req, cur, acct, ret, appended, opens, calls, out,
          iter, faults, sync, cancelled, solo

vars == <<debug, file, db, lock, pc, req, cur, acct, ret, appended, opens, calls, out,
          iter, faults, sync, cancelled, solo>>

----------------------------------------------------------------------------
(* Program constants *)

PAGE_SIZE == 4096

ROW_SIZE == 1024

SIZE_LEN == 8

RING_SIZE == 10

(* Bounds of the model *)

MaxRows == 5

MaxTx == 3

MaxOpens == 2

MaxClock == 2

Limit == 2

IntBits == 4

----------------------------------------------------------------------------
(* Generic helpers *)

Max(a, b) == IF a >= b THEN a ELSE b

Min(a, b) == IF a <= b THEN a ELSE b

RECURSIVE Pow2(_)
Pow2(n) == IF n = 0 THEN 1 ELSE 2 * Pow2(n - 1)

RECURSIVE Reverse(_)
Reverse(s) == IF s = <<>> THEN <<>> ELSE Append(Reverse(Tail(s)), Head(s))

RECURSIVE Flatten(_)
Flatten(ss) == IF ss = <<>> THEN <<>> ELSE Head(ss) \o Flatten(Tail(ss))

Take(s, n) == SubSeq(s, 1, Min(n, Len(s)))

Handles == {1, 2}

----------------------------------------------------------------------------
(* Signed machine integers (the Balance and value type), IntBits wide *)

I64_MIN == -Pow2(IntBits - 1)

I64_MAX == Pow2(IntBits - 1) - 1

I64 == I64_MIN .. I64_MAX

InRange(x) == x >= I64_MIN /\ x <= I64_MAX

Wrap(x) == ((x - I64_MIN) % Pow2(IntBits)) + I64_MIN

----------------------------------------------------------------------------
(* Row encoding: a row is <<balance, transaction>> *)

KindByte(kind) == IF kind = "Credit" THEN 0 ELSE 1

ByteKind(b) == IF b = 0 THEN "Credit" ELSE "Debit"

(* a row of a type without fields, whose encoding has no bytes *)
UnitRow == <<>>

Serialize(row) ==
    IF row = UnitRow THEN <<>>
    ELSE <<row[1], row[2].value, KindByte(row[2].kind)>>

Deserialize(bytes) ==
    IF bytes = <<>> THEN UnitRow
    ELSE <<bytes[1], [value |-> bytes[2], kind |-> ByteKind(bytes[3])]>>

----------------------------------------------------------------------------
(* espora-db/src/page.rs *)

EmptySlot == [size |-> 0, payload |-> <<>>]

SlotsPerPage == PAGE_SIZE \div ROW_SIZE

Page_new == [data |-> <<>>, len |-> 0, free |-> PAGE_SIZE]

(* number of leading slots that lie wholly inside the buffer and whose     *)
(* length prefix is not zero: the scan stops at the first empty slot       *)
RECURSIVE ScanOccupied(_, _, _)
ScanOccupied(data, len, cursor) ==
    IF cursor * ROW_SIZE + ROW_SIZE > len THEN cursor
    ELSE IF data[cursor + 1].size # 0 THEN ScanOccupied(data, len, cursor + 1)
    ELSE cursor

(* Page::from_bytes taking the whole page as free *)
Page_from_bytes_allfree(buf) ==
    [data |-> buf.data, len |-> buf.len, free |-> PAGE_SIZE]

Page_from_bytes(buf) ==
    LET last_page_offset == ScanOccupied(buf.data, buf.len, 0) * ROW_SIZE
    IN  [data |-> buf.data, len |-> buf.len, free |-> PAGE_SIZE - last_page_offset]

(* write one whole slot at a slot-aligned byte offset of the vector *)
WriteSlot(data, offset, slot) ==
    LET i == (offset \div ROW_SIZE) + 1
    IN  IF i <= Len(data) THEN [data EXCEPT ![i] = slot] ELSE Append(data, slot)

(* Page::insert.  free is a usize: a negative value here stands for the    *)
(* wrapped value 2^64 + free of a build without overflow checks; a build   *)
(* with overflow checks panics at the first subtraction that underflows.   *)
Page_insert(page, row, dbg) ==
    LET serialized == Serialize(row)
        n          == Len(serialized)
        pos        == PAGE_SIZE - page.free
        slot       == [size |-> n, payload |-> serialized]
    IN  IF dbg /\ page.free < SIZE_LEN
          THEN [res |-> "panic",
                page |-> [page EXCEPT !.len = Max(page.len, pos + SIZE_LEN)]]
        ELSE IF (dbg /\ page.free < SIZE_LEN + n) \/ n + SIZE_LEN > ROW_SIZE
          THEN [res |-> "panic",
                page |-> [page EXCEPT !.len = Max(page.len, pos + SIZE_LEN + n),
                                      !.free = page.free - SIZE_LEN
                                               - (IF dbg /\ page.free < SIZE_LEN + n THEN 0 ELSE n)]]
        ELSE IF dbg /\ page.free < ROW_SIZE
          THEN [res |-> "panic",
                page |-> [page EXCEPT !.len = Max(page.len, pos + ROW_SIZE),
                                      !.free = page.free - SIZE_LEN - n,
                                      !.data = WriteSlot(page.data, pos, slot)]]
        ELSE [res |-> "ok",
              page |-> [data |-> WriteSlot(page.data, pos, slot),
                        len  |-> Max(page.len, pos + ROW_SIZE),
                        free |-> page.free - ROW_SIZE]]

RECURSIVE RowsFrom(_, _, _)
RowsFrom(data, len, cursor) ==
    IF cursor * ROW_SIZE + ROW_SIZE > len THEN <<>>
    ELSE IF data[cursor + 1].size = 0 THEN <<>>
    ELSE <<SubSeq(data[cursor + 1].payload, 1, data[cursor + 1].size)>>
         \o RowsFrom(data, len, cursor + 1)

Page_rows(page) == RowsFrom(page.data, page.len, 0)

Page_len(page) == page.len

(* AsRef<[u8]> padded with zeros up to the page size *)
Page_as_ref_padded(page) ==
    [data |-> [i \in 1..SlotsPerPage |->
                  IF i <= Len(page.data) THEN page.data[i] ELSE [size |-> 0, payload |-> <<>>]],
     len |-> PAGE_SIZE]

(* AsRef<[u8]> for Page: the bytes held, without padding *)
Page_as_ref(page) == [data |-> page.data, len |-> page.len]

(* available_rows dividing by the page size instead of the slot stride *)
Page_available_rows_bypage(page) == (PAGE_SIZE - page.len) \div PAGE_SIZE

Page_available_rows(page) == (PAGE_SIZE - page.len) \div ROW_SIZE

----------------------------------------------------------------------------
(* The log file: a sequence of 4096-byte pages, each SlotsPerPage slots     *)
(* (a page image is the page's bytes followed by zeros up to PAGE_SIZE)     *)

FileLen(f) == Len(f) * PAGE_SIZE

PageImage(page) ==
    [i \in 1..SlotsPerPage |-> IF i <= Len(page.data) THEN page.data[i] ELSE EmptySlot]

ReadPage(f, k) == [data |-> f[k], len |-> PAGE_SIZE]

WriteAt(f, pos, image) ==
    LET k == (pos \div PAGE_SIZE) + 1
    IN  IF k <= Len(f) THEN [f EXCEPT ![k] = image] ELSE Append(f, image)

----------------------------------------------------------------------------
(* espora-db/src/tokio.rs and espora-db/src/lib.rs: Db *)

ClosedDb == [open |-> FALSE, api |-> "none", current_page |-> Page_new, writer |-> 0]

(* tokio::Db::from_path: rebuild the tail page from the last 4096 bytes *)
Db_from_path(f) ==
    IF FileLen(f) >= PAGE_SIZE
      THEN [open |-> TRUE, api |-> "tokio",
            current_page |-> Page_from_bytes(ReadPage(f, Len(f))),
            writer |-> FileLen(f) - PAGE_SIZE]
      ELSE [open |-> TRUE, api |-> "tokio",
            current_page |-> Page_new, writer |-> FileLen(f)]

(* Db::from_path of lib.rs: always an empty page at the end of the file *)
Db_from_path_sync(f) ==
    [open |-> TRUE, api |-> "sync", current_page |-> Page_new, writer |-> FileLen(f)]

(* Db::insert without the seek back to the start of the tail page *)
Db_insert_noseek(d, f, row, dbg) ==
    LET r == Page_insert(d.current_page, row, dbg)
    IN  IF r.res = "panic" \/ Page_len(r.page) > PAGE_SIZE
          THEN [res |-> "panic", db |-> [d EXCEPT !.current_page = r.page], file |-> f]
        ELSE [res |-> "ok", file |-> WriteAt(f, d.writer, PageImage(r.page)),
              db |-> [d EXCEPT !.current_page =
                                   IF Page_available_rows(r.page) = 0 THEN Page_new ELSE r.page,
                               !.writer = d.writer + PAGE_SIZE]]

(* Db::insert (the same steps in tokio.rs and lib.rs) *)
Db_insert(d, f, row, dbg) ==
    LET r == Page_insert(d.current_page, row, dbg)
    IN  IF r.res = "panic" \/ Page_len(r.page) > PAGE_SIZE
          THEN [res |-> "panic", db |-> [d EXCEPT !.current_page = r.page], file |-> f]
        ELSE LET f2 == WriteAt(f, d.writer, PageImage(r.page))
             IN  IF Page_available_rows(r.page) = 0
                   THEN [res |-> "ok", file |-> f2,
                         db |-> [d EXCEPT !.current_page = Page_new,
                                          !.writer = d.writer + PAGE_SIZE]]
                   ELSE [res |-> "ok", file |-> f2,
                         db |-> [d EXCEPT !.current_page = r.page,
                                          !.writer = FileLen(f2) - PAGE_SIZE]]

DecodePage(image) ==
    LET raw == Page_rows(Page_from_bytes([data |-> image, len |-> PAGE_SIZE]))
    IN  [i \in 1..Len(raw) |-> Deserialize(raw[i])]

(* Db::pages with the cursor advanced before the first offset is computed *)
Db_pages_skipfirst(f) == [k \in 1..(Len(f) - 1) |-> f[k + 1]]

(* Db::pages: page k is read at offset 4096*k until a read comes up short *)
Db_pages(f) == [k \in 1..Len(f) |-> f[k]]

(* Db::pages_reverse: page k is read at offset End - 4096*k until the seek fails *)
Db_pages_reverse(f) == [k \in 1..Len(f) |-> f[Len(f) + 1 - k]]

Db_rows(f) ==
    LET ps == Db_pages(f)
    IN  Flatten([k \in 1..Len(ps) |-> DecodePage(ps[k])])

(* Db::rows_reverse without the .rev() of each page's rows *)
Db_rows_reverse_norev(f) ==
    LET ps == Db_pages_reverse(f)
    IN  Flatten([k \in 1..Len(ps) |-> DecodePage(ps[k])])

Db_rows_reverse(f) ==
    LET ps == Db_pages_reverse(f)
    IN  Flatten([k \in 1..Len(ps) |-> Reverse(DecodePage(ps[k]))])

----------------------------------------------------------------------------
(* State shared by the specifications.                                      *)
(*   debug     the build checks integer overflow (panics) or wraps          *)
(*   file      the account file on disk                                     *)
(*   db        the Db of each handle (tail page, write position)            *)
(*   appended  the rows whose insert / transact returned Ok, in call order  *)
(*   opens     number of from_path calls per handle                        *)
(*   calls     number of insert / transact calls issued, in all and since   *)
(*             the handle was opened                                        *)
(*   ret, out  the last result and the last iteration of each handle        *)
(*   iter      the page iterator a handle is running: its cursor, the        *)
(*             position of the reader file and the rows yielded so far       *)
(*   sync      the sync policy, the clock and the fsyncs of the inserts      *)
(*   cancelled the rows of the inserts that were cancelled before the write  *)
(*   solo      a Page used on its own, outside a Db                          *)
(*   faults    the rows whose append failed at the fsync (they are also in   *)
(*             appended: the page holding them was written)                  *)

NoTx == [value |-> 0, kind |-> "none"]

NoRet == [op |-> "none", res |-> "none", val |-> 0, nth |-> 0]

NoIter == [kind |-> "none", done |-> FALSE, cursor |-> 0, reader |-> 0,
           rows |-> <<>>, before |-> <<>>]

NoOut == [kind |-> "none", rows |-> <<>>, fwd |-> <<>>, expect |-> <<>>, n |-> 0,
          opens |-> 0, since |-> 0, pages |-> 0]

(* the builder calls made, the policy they gave, the clock, the time of the *)
(* last fsync and what every insert that returned Ok did to the file        *)
NoSync == [cfg |-> "none", sync_writes |-> [some |-> FALSE, d |-> 0], now |-> 0,
           last_sync |-> 0, log |-> <<>>]

(* a Page used on its own: the page, the buffer it was last built from, the *)
(* rows it had then and the payloads inserted since, the last result,       *)
(* whether it was built by inserts only, and its measures before the last   *)
(* from_bytes(as_ref())                                                     *)
NoPage == [p |-> Page_new, buf |-> [data |-> <<>>, len |-> 0], old |-> <<>>,
           new |-> <<>>, res |-> "none", built |-> FALSE, reloaded |-> FALSE,
           was |-> [len |-> 0, free |-> PAGE_SIZE, available_rows |-> SlotsPerPage]]

EmptyAccount == [balance |-> 0, transactions |-> <<>>, mode |-> "none"]

InitCommon ==
    /\ debug \in BOOLEAN
    /\ file = <<>>
    /\ db = [h \in Handles |-> ClosedDb]
    /\ lock = 0
    /\ pc = [h \in Handles |-> "idle"]
    /\ req = [h \in Handles |-> NoTx]
    /\ cur = [h \in Handles |-> 0]
    /\ acct = [h \in Handles |-> EmptyAccount]
    /\ ret = [h \in Handles |-> NoRet]
    /\ appended = <<>>
    /\ opens = [h \in Handles |-> 0]
    /\ calls = [total |-> 0, session |-> [h \in Handles |-> 0]]
    /\ out = [h \in Handles |-> NoOut]
    /\ iter = [h \in Handles |-> NoIter]
    /\ faults = {}
    /\ sync = NoSync
    /\ cancelled = {}
    /\ solo = NoPage

----------------------------------------------------------------------------
(* The log store used directly through one handle *)

RowSet == { <<1, [value |-> 1, kind |-> "Credit"]>>,
            <<-1, [value |-> 2, kind |-> "Debit"]>> }

ApiSet == {"tokio", "sync"}

DbOpen(h, api) ==
    /\ ~db[h].open
    /\ opens[h] < MaxOpens
    /\ db' = [db EXCEPT ![h] = IF api = "tokio" THEN Db_from_path(file)
                                ELSE Db_from_path_sync(file)]
    /\ opens' = [opens EXCEPT ![h] = @ + 1]
    /\ calls' = [calls EXCEPT !.session[h] = 0]
    /\ ret' = [ret EXCEPT ![h] = [NoRet EXCEPT !.op = "open", !.res = "ok"]]
    /\ UNCHANGED <<sync, cancelled, solo, iter, faults, debug, file, lock, pc, req, cur, acct, appended, out>>

DbClose(h) ==
    /\ db[h].open
    /\ pc[h] = "idle"
    /\ db' = [db EXCEPT ![h] = ClosedDb]
    /\ acct' = [acct EXCEPT ![h] = EmptyAccount]
    /\ ret' = [ret EXCEPT ![h] = [NoRet EXCEPT !.op = "close", !.res = "ok"]]
    /\ UNCHANGED <<sync, cancelled, solo, iter, faults, debug, file, lock, pc, req, cur, appended, opens, calls, out>>

DbInsert(h, row) ==
    /\ db[h].open
    /\ calls.total < MaxRows
    /\ LET r == Db_insert(db[h], file, row, debug)
       IN  /\ db' = [db EXCEPT ![h] = r.db]
           /\ file' = r.file
           /\ appended' = IF r.res = "ok" THEN Append(appended, row) ELSE appended
           /\ calls' = [total |-> calls.total + 1,
                        session |-> [calls.session EXCEPT ![h] = @ + 1]]
           /\ ret' = [ret EXCEPT ![h] = [op |-> "insert", res |-> r.res, val |-> 0,
                                         nth |-> calls.session[h] + 1]]
    /\ UNCHANGED <<sync, cancelled, solo, iter, faults, debug, lock, pc, req, cur, acct, opens, out>>

DbRows(h) ==
    /\ db[h].open
    /\ out' = [out EXCEPT ![h] = [kind |-> "forward", rows |-> Db_rows(file),
                                  fwd |-> Db_rows(file), expect |-> appended, n |-> 0,
                                  opens |-> opens[h], since |-> calls.session[h],
                                  pages |-> Len(file)]]
    /\ UNCHANGED <<sync, cancelled, solo, iter, faults, debug, file, db, lock, pc, req, cur, acct, ret, appended, opens, calls>>

DbRowsReverse(h) ==
    /\ db[h].open
    /\ out' = [out EXCEPT ![h] = [kind |-> "reverse", rows |-> Db_rows_reverse(file),
                                  fwd |-> Db_rows(file), expect |-> appended, n |-> 0,
                                  opens |-> opens[h], since |-> calls.session[h],
                                  pages |-> Len(file)]]
    /\ UNCHANGED <<sync, cancelled, solo, iter, faults, debug, file, db, lock, pc, req, cur, acct, ret, appended, opens, calls>>

NextDb ==
    \/ \E api \in ApiSet : DbOpen(1, api)
    \/ DbClose(1)
    \/ \E row \in RowSet : DbInsert(1, row)
    \/ DbRows(1)
    \/ DbRowsReverse(1)

SpecDb == InitCommon /\ [][NextDb]_vars

----------------------------------------------------------------------------
(* The account ledgers.                                                      *)
(*   embedded: rinha-espora-embedded, no mirror, tokio Db, transact under    *)
(*             the exclusive write lock, one step per await                  *)
(*   server:   rinha-espora-server, cached balance and ring, blocking Db     *)

TxValues == {1, I64_MAX}

TxSet == [value : TxValues, kind : {"Credit", "Debit"}]

(* a + b on the machine integer: panic with overflow checks, wrap without *)
Arith(x, dbg) ==
    IF InRange(x) THEN [res |-> "ok", val |-> x]
    ELSE IF dbg THEN [res |-> "panic", val |-> 0]
    ELSE [res |-> "ok", val |-> Wrap(x)]

(* the balance computation of transact accepting every Debit *)
NewBalance_nocheck(balance, tx, limit, dbg) ==
    IF tx.kind = "Credit" THEN Arith(balance + tx.value, dbg)
    ELSE Arith(balance - tx.value, dbg)

(* the match on transaction.kind in Account::transact *)
NewBalance(balance, tx, limit, dbg) ==
    IF tx.kind = "Credit" THEN Arith(balance + tx.value, dbg)
    ELSE LET sum == Arith(balance + limit, dbg)
         IN  IF sum.res = "panic" THEN sum
             ELSE IF sum.val >= tx.value THEN Arith(balance - tx.value, dbg)
             ELSE [res |-> "limit", val |-> 0]

(* ring_buffer.rs *)
RingBuffer_push_front(ring, item) ==
    IF Len(ring) = RING_SIZE THEN <<item>> \o SubSeq(ring, 1, Len(ring) - 1)
    ELSE <<item>> \o ring

RingBuffer_push_back(ring, item) ==
    IF Len(ring) = RING_SIZE THEN Append(Tail(ring), item)
    ELSE Append(ring, item)

RECURSIVE RingBuffer_from_iter(_, _)
RingBuffer_from_iter(ring, items) ==
    IF items = <<>> THEN ring
    ELSE RingBuffer_from_iter(RingBuffer_push_back(ring, Head(items)), Tail(items))

(* the balance_after of the most recent stored row, 0 if there is none *)
LastBalance(f) ==
    LET last == Take(Db_rows_reverse(f), 1)
    IN  IF last = <<>> THEN 0 ELSE last[1][1]

(* Account::with_db *)
Account_with_db(f, mode) ==
    IF mode = "embedded"
      THEN [db |-> Db_from_path(f),
            acct |-> [balance |-> 0, transactions |-> <<>>, mode |-> mode]]
      ELSE LET transactions == Take(Db_rows_reverse(f), RING_SIZE)
           IN  [db |-> Db_from_path_sync(f),
                acct |-> [balance |-> IF transactions = <<>> THEN 0 ELSE transactions[1][1],
                          transactions |->
                              RingBuffer_from_iter(<<>>,
                                  [i \in 1..Len(transactions) |-> transactions[i][2]]),
                          mode |-> mode]]

(* Account::last_transactions reading forward instead of in reverse *)
Account_last_transactions_forward(f, limit) == Take(Db_rows(f), limit)

(* Account::last_transactions *)
Account_last_transactions(f, limit) == Take(Db_rows_reverse(f), limit)

ModeSet == {"embedded", "server"}

AccountOpen(h, mode) ==
    /\ ~db[h].open
    /\ opens[h] < MaxOpens
    /\ LET a == Account_with_db(file, mode)
       IN  /\ db' = [db EXCEPT ![h] = a.db]
           /\ acct' = [acct EXCEPT ![h] = a.acct]
    /\ opens' = [opens EXCEPT ![h] = @ + 1]
    /\ calls' = [calls EXCEPT !.session[h] = 0]
    /\ ret' = [ret EXCEPT ![h] = [NoRet EXCEPT !.op = "open", !.res = "ok"]]
    /\ UNCHANGED <<sync, cancelled, solo, iter, faults, debug, file, lock, pc, req, cur, appended, out>>

(* embedded transact: the call is issued *)
TCall(h, tx) ==
    /\ db[h].open /\ acct[h].mode = "embedded"
    /\ pc[h] = "idle"
    /\ calls.total < MaxTx
    /\ pc' = [pc EXCEPT ![h] = "lock"]
    /\ req' = [req EXCEPT ![h] = tx]
    /\ calls' = [total |-> calls.total + 1,
                 session |-> [calls.session EXCEPT ![h] = @ + 1]]
    /\ UNCHANGED <<sync, cancelled, solo, iter, faults, debug, file, db, lock, cur, acct, ret, appended, opens, out>>

(* db.lock_writes().await: blocks until the exclusive lock is free *)
TLock(h) ==
    /\ pc[h] = "lock"
    /\ lock = 0
    /\ lock' = h
    /\ pc' = [pc EXCEPT ![h] = "read"]
    /\ UNCHANGED <<sync, cancelled, solo, iter, faults, debug, file, db, req, cur, acct, ret, appended, opens, calls, out>>

(* db.rows_reverse().take(1): the most recent stored row *)
TRead(h) ==
    /\ pc[h] = "read"
    /\ cur' = [cur EXCEPT ![h] = LastBalance(file)]
    /\ pc' = [pc EXCEPT ![h] = "apply"]
    /\ UNCHANGED <<sync, cancelled, solo, iter, faults, debug, file, db, lock, req, acct, ret, appended, opens, calls, out>>

(* the balance computation and db.insert with the lock handle leaked on    *)
(* the early return for a debit beyond the limit                            *)
TApply_keeplock(h) ==
    /\ pc[h] = "apply"
    /\ LET b == NewBalance(cur[h], req[h], Limit, debug)
           row == <<b.val, req[h]>>
           r == Db_insert(db[h], file, row, debug)
       IN  IF b.res # "ok"
             THEN /\ ret' = [ret EXCEPT ![h] = [op |-> "transact", res |-> b.res, val |-> 0,
                                                nth |-> calls.session[h]]]
                  /\ pc' = [pc EXCEPT ![h] = "idle"]
                  /\ UNCHANGED <<file, db, cur, appended, lock>>
           ELSE IF r.res # "ok"
             THEN /\ ret' = [ret EXCEPT ![h] = [op |-> "transact", res |-> r.res, val |-> 0,
                                                nth |-> calls.session[h]]]
                  /\ db' = [db EXCEPT ![h] = r.db]
                  /\ lock' = 0
                  /\ pc' = [pc EXCEPT ![h] = "idle"]
                  /\ UNCHANGED <<file, cur, appended>>
           ELSE /\ db' = [db EXCEPT ![h] = r.db]
                /\ file' = r.file
                /\ cur' = [cur EXCEPT ![h] = b.val]
                /\ appended' = Append(appended, row)
                /\ pc' = [pc EXCEPT ![h] = "unlock"]
                /\ UNCHANGED <<lock, ret>>
    /\ UNCHANGED <<sync, cancelled, solo, iter, faults, debug, req, acct, opens, calls, out>>

(* the balance computation and db.insert; an early return or a panic drops  *)
(* the lock handle                                                          *)
TApply(h) ==
    /\ pc[h] = "apply"
    /\ LET b == NewBalance(cur[h], req[h], Limit, debug)
           row == <<b.val, req[h]>>
           r == Db_insert(db[h], file, row, debug)
       IN  IF b.res # "ok"
             THEN /\ ret' = [ret EXCEPT ![h] = [op |-> "transact", res |-> b.res, val |-> 0,
                                                nth |-> calls.session[h]]]
                  /\ lock' = 0
                  /\ pc' = [pc EXCEPT ![h] = "idle"]
                  /\ UNCHANGED <<file, db, cur, appended>>
           ELSE IF r.res # "ok"
             THEN /\ ret' = [ret EXCEPT ![h] = [op |-> "transact", res |-> r.res, val |-> 0,
                                                nth |-> calls.session[h]]]
                  /\ db' = [db EXCEPT ![h] = r.db]
                  /\ lock' = 0
                  /\ pc' = [pc EXCEPT ![h] = "idle"]
                  /\ UNCHANGED <<file, cur, appended>>
           ELSE /\ db' = [db EXCEPT ![h] = r.db]
                /\ file' = r.file
                /\ cur' = [cur EXCEPT ![h] = b.val]
                /\ appended' = Append(appended, row)
                /\ pc' = [pc EXCEPT ![h] = "unlock"]
                /\ UNCHANGED <<lock, ret>>
    /\ UNCHANGED <<sync, cancelled, solo, iter, faults, debug, req, acct, opens, calls, out>>

(* the return of transact with the lock handle kept alive *)
TReturn_nodrop(h) ==
    /\ pc[h] = "unlock"
    /\ pc' = [pc EXCEPT ![h] = "idle"]
    /\ ret' = [ret EXCEPT ![h] = [op |-> "transact", res |-> "ok", val |-> cur[h],
                                  nth |-> calls.session[h]]]
    /\ UNCHANGED <<sync, cancelled, solo, iter, faults, debug, file, db, lock, req, cur,
                   acct, appended, opens, calls, out>>

(* drop(lock); Ok(balance) *)
TReturn(h) ==
    /\ pc[h] = "unlock"
    /\ lock' = 0
    /\ pc' = [pc EXCEPT ![h] = "idle"]
    /\ ret' = [ret EXCEPT ![h] = [op |-> "transact", res |-> "ok", val |-> cur[h],
                                  nth |-> calls.session[h]]]
    /\ UNCHANGED <<sync, cancelled, solo, iter, faults, debug, file, db, req, cur, acct, appended, opens, calls, out>>

(* server transact: one call under the account's RwLock write guard *)
CachedTransact(h, tx) ==
    /\ db[h].open /\ acct[h].mode \in {"server", "root"}
    /\ calls.total < MaxTx
    /\ req' = [req EXCEPT ![h] = tx]
    /\ calls' = [total |-> calls.total + 1,
                 session |-> [calls.session EXCEPT ![h] = @ + 1]]
    /\ LET b == NewBalance(acct[h].balance, tx, Limit, debug)
           row == <<b.val, tx>>
           r == Db_insert(db[h], file, row, debug)
       IN  IF b.res # "ok"
             THEN /\ ret' = [ret EXCEPT ![h] = [op |-> "transact", res |-> b.res, val |-> 0,
                                                nth |-> calls.session[h] + 1]]
                  /\ UNCHANGED <<file, db, acct, appended>>
           ELSE IF r.res # "ok"
             THEN /\ ret' = [ret EXCEPT ![h] = [op |-> "transact", res |-> r.res, val |-> 0,
                                                nth |-> calls.session[h] + 1]]
                  /\ db' = [db EXCEPT ![h] = r.db]
                  /\ UNCHANGED <<file, acct, appended>>
           ELSE /\ db' = [db EXCEPT ![h] = r.db]
                /\ file' = r.file
                /\ appended' = Append(appended, row)
                /\ acct' = [acct EXCEPT ![h].balance = b.val,
                                        ![h].transactions =
                                            RingBuffer_push_front(acct[h].transactions, tx)]
                /\ ret' = [ret EXCEPT ![h] = [op |-> "transact", res |-> "ok", val |-> b.val,
                                              nth |-> calls.session[h] + 1]]
    /\ UNCHANGED <<sync, cancelled, solo, iter, faults, debug, lock, pc, cur, opens, out>>

LastTransactions(h, n) ==
    /\ db[h].open /\ acct[h].mode = "embedded"
    /\ pc[h] = "idle"
    /\ out' = [out EXCEPT ![h] = [kind |-> "last", rows |-> Account_last_transactions(file, n),
                                  fwd |-> Db_rows(file), expect |-> appended, n |-> n,
                                  opens |-> opens[h], since |-> calls.session[h],
                                  pages |-> Len(file)]]
    /\ UNCHANGED <<sync, cancelled, solo, iter, faults, debug, file, db, lock, pc, req, cur, acct, ret, appended, opens, calls>>

(* one ledger handle on the account file *)
NextLedger ==
    \/ \E mode \in ModeSet : AccountOpen(1, mode)
    \/ DbClose(1)
    \/ \E tx \in TxSet : TCall(1, tx)
    \/ TLock(1)
    \/ TRead(1)
    \/ TApply(1)
    \/ TReturn(1)
    \/ \E tx \in TxSet : CachedTransact(1, tx)
    \/ \E n \in {0, 2, RING_SIZE} : LastTransactions(1, n)

SpecLedger == InitCommon /\ [][NextLedger]_vars

(* two embedded ledger handles (two processes) on the same account file *)
TxSetShared == [value : {1}, kind : {"Credit", "Debit"}]

NextShared ==
    \E h \in Handles :
        \/ AccountOpen(h, "embedded")
        \/ DbClose(h)
        \/ \E tx \in TxSetShared : TCall(h, tx)
        \/ TLock(h)
        \/ TRead(h)
        \/ TApply(h)
        \/ TReturn(h)

SpecShared == InitCommon /\ [][NextShared]_vars

----------------------------------------------------------------------------
(* Claims about the log store (SpecDb) *)

(* C4: reopening a cleanly closed file and immediately appending one row y  *)
(* succeeds and leaves a file whose forward iteration is xs followed by y   *)
(* (appended already ends with y when the insert returned Ok).              *)
C4_ReopenThenAppend ==
    (ret[1].op = "insert" /\ ret[1].nth = 1)
        => (ret[1].res = "ok" /\ Db_rows(file) = appended)

(* C5: after appending xs through one handle, closing and reopening,        *)
(* iterate_forward yields exactly xs in append order.                       *)
C5_RoundTrip ==
    (out[1].kind = "forward" /\ out[1].opens >= 2 /\ out[1].since = 0)
        => out[1].rows = out[1].expect

C5_Witness ==
    /\ out[1].kind = "forward" /\ out[1].opens = 2 /\ out[1].since = 0
    /\ Len(out[1].rows) = SlotsPerPage + 1
    /\ out[1].rows[1] # out[1].rows[2]

(* C6: after n appends to a fresh file and a reopen, the rebuilt tail page  *)
(* reports available_rows() = floor(4096/R) - (n mod floor(4096/R)).        *)
C6_TailRecovery ==
    (ret[1].op = "open" /\ opens[1] = 2 /\ db[1].api = "tokio")
        => Page_available_rows(db[1].current_page)
             = SlotsPerPage - (Len(appended) % SlotsPerPage)

(* C7: iterate_reverse yields each page's rows reversed, pages from the     *)
(* last to the first, which is the reverse of iterate_forward on that file. *)
C7_ReverseLaw ==
    out[1].kind = "reverse" => out[1].rows = Reverse(out[1].fwd)

C7_Witness ==
    /\ out[1].kind = "reverse"
    /\ Len(out[1].rows) = SlotsPerPage + 1
    /\ out[1].rows[1] # out[1].rows[2]
    /\ out[1].rows = Reverse(out[1].expect)

(* C8: on one handle without reopen, a forward iteration yields exactly the *)
(* rows appended before it started, in issue order, across page boundaries. *)
C8_IterationSeesAppends ==
    (out[1].kind = "forward" /\ out[1].opens = 1)
        => out[1].rows = out[1].expect

C8_Witness ==
    /\ out[1].kind = "forward" /\ out[1].opens = 1
    /\ Len(out[1].rows) = SlotsPerPage + 1
    /\ Len(appended) = SlotsPerPage + 1

----------------------------------------------------------------------------
(* Claims about the ledger *)

(* the Credit/Debit rule of one stored row against the balance before it *)
RowObeysRule(prev, row) ==
    IF row[2].kind = "Credit" THEN row[1] = prev + row[2].value
    ELSE prev + Limit >= row[2].value /\ row[1] = prev - row[2].value

LedgerRule(rows) ==
    \A i \in 1..Len(rows) :
        RowObeysRule(IF i = 1 THEN 0 ELSE rows[i - 1][1], rows[i])

(* C1: with one ledger handle, after any sequence of open, transact and     *)
(* reopen, the rows of the file in forward order obey the Credit/Debit rule *)
(* with b_0 = 0.                                                            *)
C1_LedgerInvariant == LedgerRule(Db_rows(file))

(* C2: two handles on the same file, each running transact under the        *)
(* exclusive lock: in every interleaving the rows of the file obey the      *)
(* Credit/Debit rule relative to the stored predecessor.                    *)
C2_SharedLedgerInvariant ==
    (\A h \in Handles : acct[h].mode \in {"embedded", "none"})
        => LedgerRule(Db_rows(file))

(* C3: k handles each perform m accepted debits of v from balance 0; when   *)
(* all calls have returned the file holds k*m rows, each balance_after is   *)
(* v less than its predecessor, and the final balance is -(k*m*v).          *)
C3_NoLostDebit ==
    \A v \in {1} :
        ( /\ \A h \in Handles : pc[h] = "idle" /\ opens[h] = 1 /\ calls.session[h] >= 1
          /\ calls.session[1] = calls.session[2]
          /\ Len(appended) = calls.total
          /\ \A i \in 1..Len(appended) : appended[i][2] = [value |-> v, kind |-> "Debit"] )
        => LET rows == Db_rows(file)
           IN  /\ Len(rows) = calls.total
               /\ \A i \in 1..Len(rows) : rows[i][1] = -(i * v)
               /\ LastBalance(file) = -(calls.total * v)

(* C9: a Debit with b + limit < value, b the balance_after of the most      *)
(* recent stored row, is rejected with InsufficientLimit, and the rejection *)
(* leaves the file, the tail page, the cached balance and the ring as they  *)
(* were.                                                                    *)
C9_RejectedDebit ==
    [][ \A h \in Handles :
          LET embedded == acct[h].mode = "embedded" /\ pc[h] = "apply" /\ pc'[h] # "apply"
              cached   == acct[h].mode = "server" /\ calls'.session[h] = calls.session[h] + 1
              tx       == IF embedded THEN req[h] ELSE req'[h]
          IN  ((embedded \/ cached) /\ tx.kind = "Debit"
                   /\ LastBalance(file) + Limit < tx.value)
                => /\ ret'[h].op = "transact" /\ ret'[h].res = "limit"
                   /\ file' = file
                   /\ db'[h] = db[h]
                   /\ acct'[h] = acct[h]
                   /\ LastBalance(file') = LastBalance(file) ]_vars

C9_Witness ==
    /\ ret[1].op = "transact" /\ ret[1].res = "limit"
    /\ req[1].kind = "Debit"
    /\ Len(appended) >= 1
    /\ LastBalance(file) < 0
    /\ LastBalance(file) + Limit < req[1].value

(* C10: last_n_transactions(n) on a file of m stored rows returns exactly   *)
(* min(n, m) entries, the most recently appended rows newest first, also    *)
(* across pages.                                                            *)
C10_LastTransactions ==
    out[1].kind = "last"
        => /\ Len(out[1].rows) = Min(out[1].n, Len(out[1].expect))
           /\ \A i \in 1..Len(out[1].rows) :
                  out[1].rows[i] = out[1].expect[Len(out[1].expect) + 1 - i]

C10_Witness ==
    /\ out[1].kind = "last"
    /\ out[1].pages = 2
    /\ out[1].n = 2
    /\ Len(out[1].expect) = 3
    /\ Len(out[1].rows) = 2
    /\ out[1].rows[1] # out[1].rows[2]

----------------------------------------------------------------------------
(* The cached ledgers after a restart: rinha-espora-server and src/main.rs  *)

(* RingBuffer::push of src/main.rs: the new item goes to the front *)
RingBuffer_push(ring, item) ==
    IF Len(ring) = RING_SIZE THEN <<item>> \o SubSeq(ring, 1, Len(ring) - 1)
    ELSE <<item>> \o ring

(* FromIterator for RingBuffer of src/main.rs: push for every item *)
RECURSIVE RingBuffer_from_iter_push(_, _)
RingBuffer_from_iter_push(ring, items) ==
    IF items = <<>> THEN ring
    ELSE RingBuffer_from_iter_push(RingBuffer_push(ring, Head(items)), Tail(items))

(* Account::with_db of src/main.rs: all rows forward, the balance of the    *)
(* last one, then the reversed list collected into the ring                 *)
Account_with_db_root(f) ==
    LET rows == Db_rows(f)
        transactions == Reverse(rows)
    IN  [db |-> Db_from_path_sync(f),
         acct |-> [balance |-> IF rows = <<>> THEN 0 ELSE rows[Len(rows)][1],
                   transactions |->
                       RingBuffer_from_iter_push(<<>>,
                           [i \in 1..Len(transactions) |-> transactions[i][2]]),
                   mode |-> "root"]]

AccountOpenRoot(h) ==
    /\ ~db[h].open
    /\ opens[h] < MaxOpens
    /\ LET a == Account_with_db_root(file)
       IN  /\ db' = [db EXCEPT ![h] = a.db]
           /\ acct' = [acct EXCEPT ![h] = a.acct]
    /\ opens' = [opens EXCEPT ![h] = @ + 1]
    /\ calls' = [calls EXCEPT !.session[h] = 0]
    /\ ret' = [ret EXCEPT ![h] = [NoRet EXCEPT !.op = "open", !.res = "ok"]]
    /\ UNCHANGED <<sync, cancelled, solo, iter, faults, debug, file, lock, pc, req, cur, appended, out>>

NextCached ==
    \/ AccountOpen(1, "server")
    \/ AccountOpenRoot(1)
    \/ DbClose(1)
    \/ \E tx \in TxSet : CachedTransact(1, tx)

SpecCached == InitCommon /\ [][NextCached]_vars

(* the transactions of the min(RING_SIZE, m) most recent rows, newest first *)
NewestFirst(f) ==
    LET rows == Take(Db_rows_reverse(f), RING_SIZE)
    IN  [i \in 1..Len(rows) |-> rows[i][2]]

(* C11: after a restart, a cached-mode account opened on a file of m rows   *)
(* has the balance_after of the last stored row as cached balance (0 if     *)
(* m = 0) and a ring with the transactions of the min(10, m) most recent    *)
(* rows, newest first.                                                      *)
C11_MirrorAfterRestart ==
    (ret[1].op = "open" /\ acct[1].mode \in {"server", "root"})
        => /\ acct[1].balance = LastBalance(file)
           /\ acct[1].transactions = NewestFirst(file)

(* C12: an append to a page whose free space is below one slot returns an   *)
(* error instead of writing: the page, its free counter, the file and the   *)
(* write position are left as they were.                                    *)
C12_FullPageRejected ==
    [][(/\ db[1].open
        /\ db[1].current_page.free < ROW_SIZE
        /\ calls'.total = calls.total + 1)
          => (/\ ret'[1].res = "error"
              /\ db'[1] = db[1]
              /\ file' = file)]_vars

----------------------------------------------------------------------------
(* The log store holding rows of a type whose encoding can be empty *)

UnitRowSet == { <<1, [value |-> 1, kind |-> "Credit"]>>, UnitRow }

NextUnit ==
    \/ \E api \in ApiSet : DbOpen(1, api)
    \/ DbClose(1)
    \/ \E row \in UnitRowSet : DbInsert(1, row)

SpecUnit == InitCommon /\ [][NextUnit]_vars

(* C13: appending a row whose encoding is zero bytes long fails and stores  *)
(* nothing: no insert of such a row returned Ok, every slot written by an   *)
(* insert has a length prefix above zero, and iteration yields every row    *)
(* that a first-session handle inserted.                                    *)
C13_ZeroLengthRejected ==
    /\ \A i \in 1..Len(appended) : appended[i] # UnitRow
    /\ opens[1] = 1 => Len(Db_rows(file)) = Len(appended)

(* C14: a Credit whose b + tx.value leaves the signed range fails (an error *)
(* return or a fatal stop) and stores no row, in the embedded and in the    *)
(* cached ledger.                                                           *)
C14_CreditOverflowFails ==
    [][/\ (/\ pc[1] = "apply" /\ pc'[1] # "apply"
           /\ req[1].kind = "Credit"
           /\ ~InRange(cur[1] + req[1].value))
             => (file' = file /\ ret'[1].res \in {"panic", "error"})
       /\ (/\ acct[1].mode = "server"
           /\ calls'.total = calls.total + 1
           /\ req'[1].kind = "Credit"
           /\ ~InRange(acct[1].balance + req'[1].value))
             => (file' = file /\ ret'[1].res \in {"panic", "error"})]_vars

(* C15: on a fresh file written through a single handle, after n >= 1       *)
(* successful appends the file is exactly 4096 * ceil(n / S) bytes long,    *)
(* S = floor(4096 / R) being the slots of a page.                           *)
C15_FileLength ==
    (opens[1] = 1 /\ Len(appended) >= 1)
        => FileLen(file)
             = PAGE_SIZE * ((Len(appended) + SlotsPerPage - 1) \div SlotsPerPage)

(* the append after the one that filled the first page began page 2 *)
C15_Witness ==
    /\ opens[1] = 1
    /\ Len(appended) = SlotsPerPage + 1
    /\ FileLen(file) = 2 * PAGE_SIZE

(* C16: after any sequence of appends and reopens, every page of the file   *)
(* other than the last holds exactly S occupied slots.                      *)
C16_InnerPagesFull ==
    \A k \in 1..(Len(file) - 1) :
        \A i \in 1..SlotsPerPage : file[k][i].size # 0

(* the slot i of page k of a file, empty where the file has no such page *)
SlotAt(f, k, i) == IF k <= Len(f) THEN f[k][i] ELSE EmptySlot

(* the slots in which two files differ *)
ChangedSlots(f, g) ==
    { ki \in (1..Max(Len(f), Len(g))) \X (1..SlotsPerPage) :
          SlotAt(f, ki[1], ki[2]) # SlotAt(g, ki[1], ki[2]) }

(* C17: an append changes only the first empty slot of the tail page, or    *)
(* the first slot of a new page: the bytes of every slot occupied before    *)
(* the append are the same after it, over appends and reopens of a handle.  *)
C17_AppendOnly ==
    [][file' # file =>
         /\ Len(file') \in {Len(file), Len(file) + 1}
         /\ \A k \in 1..Len(file) : \A i \in 1..SlotsPerPage :
                file[k][i].size # 0 => file'[k][i] = file[k][i]
         /\ \E ki \in ChangedSlots(file, file') :
                /\ ChangedSlots(file, file') = {ki}
                /\ ki[1] = Len(file')
                /\ \A j \in 1..(ki[2] - 1) : file'[ki[1]][j].size # 0]_vars

(* the first insert after a reopen was written into the partly filled page  *)
(* that the reopen rebuilt                                                  *)
C17_Witness ==
    /\ opens[1] = 2 /\ db[1].api = "tokio"
    /\ ret[1].op = "insert" /\ ret[1].res = "ok" /\ ret[1].nth = 1
    /\ Len(file) = 1 /\ Len(appended) >= 2

----------------------------------------------------------------------------
(* Iteration page by page (tokio.rs): every pass of the loop of pages /     *)
(* pages_reverse is one step, so that other handles can write in between.   *)
(* rows / rows_reverse borrow the Db mutably: the iterating handle itself   *)
(* cannot insert or be dropped until the stream is dropped.                 *)

(* db.rows() / db.rows_reverse(): the stream is created *)
IterStart(h, kind) ==
    /\ db[h].open
    /\ iter[h].kind = "none"
    /\ iter' = [iter EXCEPT ![h] = [kind |-> kind, done |-> FALSE,
                                    cursor |-> IF kind = "forward" THEN 0 ELSE 1,
                                    reader |-> 0, rows |-> <<>>,
                                    before |-> Db_rows(file)]]
    /\ UNCHANGED <<sync, cancelled, solo, faults, debug, file, db, lock, pc, req, cur, acct, ret, appended,
                   opens, calls, out>>

(* one pass of the loop of Db::pages: seek to cursor * PAGE_SIZE from the   *)
(* start, read one page or stop on a short read                             *)
Pages_step(it, f) ==
    LET offset == it.cursor * PAGE_SIZE
    IN  IF offset + PAGE_SIZE <= FileLen(f)
          THEN [it EXCEPT !.cursor = it.cursor + 1,
                          !.reader = offset + PAGE_SIZE,
                          !.rows = it.rows \o DecodePage(f[(offset \div PAGE_SIZE) + 1])]
        ELSE [it EXCEPT !.cursor = it.cursor + 1, !.reader = Max(offset, FileLen(f)),
                        !.done = TRUE]

(* one pass of the loop of Db::pages_reverse: seek to cursor * PAGE_SIZE    *)
(* before the end the file has now, stop if the seek fails                  *)
Pages_reverse_step(it, f) ==
    LET offset == it.cursor * PAGE_SIZE
        pos    == FileLen(f) - offset
    IN  IF pos < 0 THEN [it EXCEPT !.done = TRUE]
        ELSE [it EXCEPT !.cursor = it.cursor + 1,
                        !.reader = pos + PAGE_SIZE,
                        !.rows = it.rows \o Reverse(DecodePage(f[(pos \div PAGE_SIZE) + 1]))]

(* a pass of the stream that seeks the writer file instead of the reader *)
Stream_next_onwriter(d, it, f) ==
    LET n == IF it.kind = "forward" THEN Pages_step(it, f) ELSE Pages_reverse_step(it, f)
    IN  [db |-> [d EXCEPT !.writer = n.reader], iter |-> n]

(* a pass of the stream: it seeks and reads self.reader, a file opened on   *)
(* its own, and nothing else of the Db                                      *)
Stream_next(d, it, f) ==
    LET n == IF it.kind = "forward" THEN Pages_step(it, f) ELSE Pages_reverse_step(it, f)
    IN  [db |-> d, iter |-> n]

IterStep(h) ==
    /\ iter[h].kind # "none"
    /\ ~iter[h].done
    /\ LET r == Stream_next(db[h], iter[h], file)
       IN  /\ iter' = [iter EXCEPT ![h] = r.iter]
           /\ db' = [db EXCEPT ![h] = r.db]
    /\ UNCHANGED <<sync, cancelled, solo, faults, debug, file, lock, pc, req, cur, acct, ret, appended,
                   opens, calls, out>>

(* the stream is dropped, finished or not; the caller keeps what it yielded *)
IterDrop(h) ==
    /\ iter[h].kind # "none"
    /\ iter' = [iter EXCEPT ![h] = NoIter]
    /\ out' = [out EXCEPT ![h] = [NoOut EXCEPT !.kind = iter[h].kind,
                                               !.rows = iter[h].rows,
                                               !.expect = appended]]
    /\ UNCHANGED <<sync, cancelled, solo, faults, debug, file, db, lock, pc, req, cur, acct, ret, appended,
                   opens, calls>>

(* the next row of the writing handle: every row is different *)
NextRow == <<Len(appended) + 1, [value |-> 1, kind |-> "Credit"]>>

(* handle 1 iterates while handle 2 (another process) appends *)
NextIter ==
    \/ \E h \in Handles : DbOpen(h, "tokio")
    \/ \E kind \in {"forward", "reverse"} : IterStart(1, kind)
    \/ IterStep(1)
    \/ IterDrop(1)
    \/ DbInsert(2, NextRow)

SpecIter == InitCommon /\ [][NextIter]_vars

(* the rows of a sequence that are among the rows of another *)
Among(rows, others) ==
    LET In(r) == \E i \in 1..Len(others) : others[i] = r
    IN  SelectSeq(rows, In)

(* C18: an iteration yields every row that was stored before it began       *)
(* exactly once and in its order (forward: oldest first, reverse: newest    *)
(* first), also when another handle appends between its page reads.         *)
C18_SnapshotIteration ==
    iter[1].done =>
        Among(iter[1].rows, iter[1].before) =
            (IF iter[1].kind = "forward" THEN iter[1].before
             ELSE Reverse(iter[1].before))

----------------------------------------------------------------------------
(* One handle that appends and iterates in turn *)

(* insert needs the Db that a live stream has borrowed *)
DbInsertIdle(h, row) ==
    /\ iter[h].kind = "none"
    /\ DbInsert(h, row)

NextScan ==
    \/ DbOpen(1, "tokio")
    \/ \E row \in RowSet : DbInsertIdle(1, row)
    \/ \E kind \in {"forward", "reverse"} : IterStart(1, kind)
    \/ IterStep(1)
    \/ IterDrop(1)

SpecScan == InitCommon /\ [][NextScan]_vars

(* the Db and the file that the inserts of rows alone produce on a fresh file *)
RECURSIVE Replay(_)
Replay(rows) ==
    IF rows = <<>> THEN [db |-> Db_from_path(<<>>), file |-> <<>>]
    ELSE LET p == Replay(SubSeq(rows, 1, Len(rows) - 1))
             r == Db_insert(p.db, p.file, rows[Len(rows)], debug)
         IN  [db |-> r.db, file |-> r.file]

(* C19: iterations run between the appends of a handle, to their end or in *)
(* part, do not change where the next append writes: the file and the       *)
(* writer are the ones that the same appends produce with no iteration.     *)
C19_IterationKeepsWriter ==
    opens[1] = 1 =>
        /\ file = Replay(appended).file
        /\ db[1] = Replay(appended).db

(* a reverse iteration over a file with rows was dropped and an append      *)
(* followed it                                                              *)
C19_Witness ==
    /\ out[1].kind = "reverse"
    /\ out[1].rows # <<>>
    /\ Len(appended) > Len(out[1].expect)
    /\ ret[1].op = "insert" /\ ret[1].res = "ok"

----------------------------------------------------------------------------
(* Appends whose fsync fails *)

(* Db::insert when sync_data returns an error: the page was written and the *)
(* '?' returns before the page is rolled or the writer is moved back        *)
Db_insert_syncfail(d, f, row, dbg) ==
    LET r == Page_insert(d.current_page, row, dbg)
    IN  IF r.res = "panic" \/ Page_len(r.page) > PAGE_SIZE
          THEN [res |-> "panic", db |-> [d EXCEPT !.current_page = r.page], file |-> f]
        ELSE [res |-> "error", file |-> WriteAt(f, d.writer, PageImage(r.page)),
              db |-> [d EXCEPT !.current_page = r.page,
                               !.writer = d.writer + PAGE_SIZE]]

(* an insert that fails at the fsync: the row counts as appended *)
DbInsertSyncFail(h, row) ==
    /\ db[h].open
    /\ calls.total < MaxRows
    /\ LET r == Db_insert_syncfail(db[h], file, row, debug)
       IN  /\ db' = [db EXCEPT ![h] = r.db]
           /\ file' = r.file
           /\ appended' = IF r.res = "error" THEN Append(appended, row) ELSE appended
           /\ faults' = IF r.res = "error" THEN faults \cup {row} ELSE faults
           /\ calls' = [total |-> calls.total + 1,
                        session |-> [calls.session EXCEPT ![h] = @ + 1]]
           /\ ret' = [ret EXCEPT ![h] = [op |-> "insert", res |-> r.res, val |-> 0,
                                         nth |-> calls.session[h] + 1]]
    /\ UNCHANGED <<sync, cancelled, solo, iter, debug, lock, pc, req, cur, acct, opens, out>>

(* the row of the next call: every row is different *)
SyncRow == <<calls.total + 1, [value |-> 1, kind |-> "Credit"]>>

NextSync ==
    \/ \E api \in ApiSet : DbOpen(1, api)
    \/ DbInsert(1, SyncRow)
    \/ DbInsertSyncFail(1, SyncRow)
    \/ DbRows(1)

SpecSync == InitCommon /\ [][NextSync]_vars

(* the positions of a row in a sequence of rows *)
Positions(rows, x) == { i \in 1..Len(rows) : rows[i] = x }

(* C20: a row whose append failed at the fsync stays appended: a later      *)
(* forward iteration yields it exactly once, after all the rows appended    *)
(* before it.                                                               *)
C20_SyncFailureKeepsRow ==
    out[1].kind = "forward" =>
        \A x \in faults :
            \A i \in Positions(out[1].expect, x) :
                /\ Cardinality(Positions(out[1].rows, x)) = 1
                /\ \A j \in Positions(out[1].rows, x) :
                       SubSeq(out[1].rows, 1, j - 1) = SubSeq(out[1].expect, 1, i - 1)

----------------------------------------------------------------------------
(* The sync policy (builder.rs): Option<Duration>, None is "never" *)

None == [some |-> FALSE, d |-> 0]

Some(d) == [some |-> TRUE, d |-> d]

Builder_default == Some(0)

(* Builder::sync_writes with the two branches exchanged *)
Builder_sync_writes_inverted(sync_writes) == IF sync_writes THEN None ELSE Some(0)

Builder_sync_writes(sync_writes) == IF sync_writes THEN Some(0) ELSE None

Builder_sync_write_interval(interval) == Some(interval)

CfgSet == {"default", "sync_true", "sync_false", "interval_0", "interval_1"}

(* the builder calls that a configuration stands for *)
Builder_of(cfg) ==
    CASE cfg = "default"    -> Builder_default
      [] cfg = "sync_true"  -> Builder_sync_writes(TRUE)
      [] cfg = "sync_false" -> Builder_sync_writes(FALSE)
      [] cfg = "interval_0" -> Builder_sync_write_interval(0)
      [] cfg = "interval_1" -> Builder_sync_write_interval(1)

(* the sync step of Db::insert for a Db holding sync_writes: fsync on every *)
(* insert for a zero interval, else when more than the interval has passed  *)
(* since the last fsync                                                     *)
Db_should_sync(sync_writes, now, last_sync) ==
    /\ sync_writes.some
    /\ (sync_writes.d = 0 \/ now - last_sync > sync_writes.d)

(* what an insert that returns Ok does to the file, in order *)
Db_insert_effects(sync_writes, now, last_sync) ==
    IF Db_should_sync(sync_writes, now, last_sync) THEN <<"write", "sync">>
    ELSE <<"write">>

(* Builder::build_tokio *)
DbBuild(h, cfg) ==
    /\ ~db[h].open
    /\ opens[h] < MaxOpens
    /\ db' = [db EXCEPT ![h] = Db_from_path(file)]
    /\ sync' = [sync EXCEPT !.cfg = cfg, !.sync_writes = Builder_of(cfg),
                            !.last_sync = sync.now, !.log = <<>>]
    /\ opens' = [opens EXCEPT ![h] = @ + 1]
    /\ calls' = [calls EXCEPT !.session[h] = 0]
    /\ ret' = [ret EXCEPT ![h] = [NoRet EXCEPT !.op = "open", !.res = "ok"]]
    /\ UNCHANGED <<cancelled, solo, iter, faults, debug, file, lock, pc, req, cur, acct,
                   appended, out>>

(* wall time passes *)
Tick ==
    /\ sync.now < MaxClock
    /\ sync' = [sync EXCEPT !.now = @ + 1]
    /\ UNCHANGED <<cancelled, solo, iter, faults, debug, file, db, lock, pc, req, cur,
                   acct, ret, appended, opens, calls, out>>

(* Db::insert on a Db made by the builder *)
DbInsertBuilt(h, row) ==
    /\ db[h].open
    /\ sync.cfg # "none"
    /\ calls.total < MaxRows
    /\ LET r == Db_insert(db[h], file, row, debug)
           e == Db_insert_effects(sync.sync_writes, sync.now, sync.last_sync)
       IN  /\ db' = [db EXCEPT ![h] = r.db]
           /\ file' = r.file
           /\ appended' = IF r.res = "ok" THEN Append(appended, row) ELSE appended
           /\ sync' = IF r.res = "ok"
                        THEN [sync EXCEPT !.log = Append(@, e),
                                          !.last_sync = IF e = <<"write">> THEN @
                                                        ELSE sync.now]
                      ELSE sync
           /\ calls' = [total |-> calls.total + 1,
                        session |-> [calls.session EXCEPT ![h] = @ + 1]]
           /\ ret' = [ret EXCEPT ![h] = [op |-> "insert", res |-> r.res, val |-> 0,
                                         nth |-> calls.session[h] + 1]]
    /\ UNCHANGED <<cancelled, solo, iter, faults, debug, lock, pc, req, cur, acct,
                   opens, out>>

NextPolicy ==
    \/ \E cfg \in CfgSet : DbBuild(1, cfg)
    \/ DbClose(1)
    \/ Tick
    \/ DbInsertBuilt(1, NextRow)

SpecPolicy == InitCommon /\ [][NextPolicy]_vars

----------------------------------------------------------------------------
(* Cancelled appends *)

(* Db::insert dropped at the await of write_all, before the page is         *)
(* written: Page::insert has already run on current_page                    *)
Db_insert_cancelled(d, f, row, dbg) ==
    LET r == Page_insert(d.current_page, row, dbg)
    IN  [res |-> IF r.res = "panic" THEN "panic" ELSE "cancelled",
         db |-> [d EXCEPT !.current_page = r.page], file |-> f]

DbInsertCancelled(h, row) ==
    /\ db[h].open
    /\ calls.total < MaxRows
    /\ LET r == Db_insert_cancelled(db[h], file, row, debug)
       IN  /\ db' = [db EXCEPT ![h] = r.db]
           /\ file' = r.file
           /\ cancelled' = IF r.res = "cancelled" THEN cancelled \cup {row} ELSE cancelled
           /\ calls' = [total |-> calls.total + 1,
                        session |-> [calls.session EXCEPT ![h] = @ + 1]]
           /\ ret' = [ret EXCEPT ![h] = [op |-> "insert", res |-> r.res, val |-> 0,
                                         nth |-> calls.session[h] + 1]]
    /\ UNCHANGED <<sync, solo, iter, faults, debug, lock, pc, req, cur, acct, appended,
                   opens, out>>

NextCancel ==
    \/ DbOpen(1, "tokio")
    \/ DbClose(1)
    \/ DbInsert(1, SyncRow)
    \/ DbInsertCancelled(1, SyncRow)

SpecCancel == InitCommon /\ [][NextCancel]_vars

(* C22: an append cancelled before its page write leaves the log as it was: *)
(* the row of a cancelled append is in no page of the file, at that moment  *)
(* or after later appends on the handle.                                    *)
C22_CancelledRowAbsent ==
    \A x \in cancelled : Positions(Db_rows(file), x) = {}

----------------------------------------------------------------------------
(* The error returns of the embedded transact *)

(* lock_writes() returns an error: transact returns without a lock handle *)
TLockFail(h) ==
    /\ pc[h] = "lock"
    /\ pc' = [pc EXCEPT ![h] = "idle"]
    /\ ret' = [ret EXCEPT ![h] = [op |-> "transact", res |-> "error", val |-> 0,
                                  nth |-> calls.session[h]]]
    /\ UNCHANGED <<sync, cancelled, solo, iter, faults, debug, file, db, lock, req, cur,
                   acct, appended, opens, calls, out>>

(* rows_reverse() yields an error: the '?' returns and drops the lock handle *)
TReadFail(h) ==
    /\ pc[h] = "read"
    /\ lock' = 0
    /\ pc' = [pc EXCEPT ![h] = "idle"]
    /\ ret' = [ret EXCEPT ![h] = [op |-> "transact", res |-> "error", val |-> 0,
                                  nth |-> calls.session[h]]]
    /\ UNCHANGED <<sync, cancelled, solo, iter, faults, debug, file, db, req, cur, acct,
                   appended, opens, calls, out>>

(* db.insert returns an error after the page write (the fsync failed): the  *)
(* '?' returns and drops the lock handle                                    *)
TPersistFail(h) ==
    /\ pc[h] = "apply"
    /\ LET b == NewBalance(cur[h], req[h], Limit, debug)
           row == <<b.val, req[h]>>
           r == Db_insert_syncfail(db[h], file, row, debug)
       IN  /\ b.res = "ok"
           /\ db' = [db EXCEPT ![h] = r.db]
           /\ file' = r.file
           /\ faults' = IF r.res = "error" THEN faults \cup {row} ELSE faults
           /\ ret' = [ret EXCEPT ![h] = [op |-> "transact", res |-> r.res, val |-> 0,
                                         nth |-> calls.session[h]]]
    /\ lock' = 0
    /\ pc' = [pc EXCEPT ![h] = "idle"]
    /\ UNCHANGED <<sync, cancelled, solo, iter, debug, req, cur, acct, appended, opens,
                   calls, out>>

(* two embedded handles, every return path of transact *)
NextLock ==
    \E h \in Handles :
        \/ AccountOpen(h, "embedded")
        \/ \E tx \in TxSetShared : TCall(h, tx)
        \/ TLock(h)
        \/ TLockFail(h)
        \/ TRead(h)
        \/ TReadFail(h)
        \/ TApply(h)
        \/ TPersistFail(h)
        \/ TReturn(h)

SpecLock == InitCommon /\ [][NextLock]_vars

(* C23: in the uncached transact the read of the most recent row and the    *)
(* append happen while the calling handle holds the exclusive lock, at most *)
(* one handle is past the lock, and the lock is not held by a handle whose  *)
(* transact has returned, with Ok or with any error.                        *)
C23_LockDiscipline ==
    \A h \in Handles :
        /\ pc[h] \in {"read", "apply", "unlock"} => lock = h
        /\ pc[h] \in {"idle", "lock"} => lock # h

(* handle 2 waits for the lock that handle 1 holds at its append, after an  *)
(* earlier transact of handle 2 returned an error                           *)
C23_Witness ==
    /\ pc[1] = "apply" /\ lock = 1
    /\ pc[2] = "lock"
    /\ ret[2].op = "transact" /\ ret[2].res = "error"

----------------------------------------------------------------------------
(* A Page used on its own (page.rs and its tests) *)

OccupiedSlot == [size |-> 3, payload |-> Serialize(<<1, [value |-> 1, kind |-> "Credit"]>>)]

(* byte vectors: up to a page of slots, each occupied or zero, the last     *)
(* slot whole or cut short                                                  *)
BufSet ==
    { [data |-> d, len |-> Len(d) * ROW_SIZE - cut] :
        d \in UNION { [1..n -> {EmptySlot, OccupiedSlot}] : n \in 0..SlotsPerPage },
        cut \in {0, SIZE_LEN} } \ { [data |-> <<>>, len |-> -SIZE_LEN] }

PageNew ==
    /\ solo' = [NoPage EXCEPT !.res = "new", !.built = TRUE]
    /\ UNCHANGED <<sync, cancelled, iter, faults, debug, file, db, lock, pc, req, cur,
                   acct, ret, appended, opens, calls, out>>

PageFromBytes(buf) ==
    /\ LET q == Page_from_bytes(buf)
       IN  solo' = [NoPage EXCEPT !.p = q, !.buf = buf, !.old = Page_rows(q),
                                  !.res = "from_bytes", !.built = (buf.len = 0)]
    /\ UNCHANGED <<sync, cancelled, iter, faults, debug, file, db, lock, pc, req, cur,
                   acct, ret, appended, opens, calls, out>>

PageInsert(row) ==
    /\ solo.res \in {"new", "from_bytes", "reload", "ok"}
    /\ Len(solo.old) + Len(solo.new) < MaxRows
    /\ LET r == Page_insert(solo.p, row, debug)
       IN  solo' = [solo EXCEPT !.p = r.page, !.res = r.res,
                                !.new = IF r.res = "ok" THEN Append(@, Serialize(row)) ELSE @]
    /\ UNCHANGED <<sync, cancelled, iter, faults, debug, file, db, lock, pc, req, cur,
                   acct, ret, appended, opens, calls, out>>

(* Page::from_bytes(page.as_ref().to_vec()) *)
PageReload ==
    /\ solo.res \in {"new", "from_bytes", "reload", "ok"}
    /\ LET buf == Page_as_ref(solo.p)
           q == Page_from_bytes(buf)
       IN  solo' = [solo EXCEPT !.p = q, !.buf = buf, !.old = Page_rows(q), !.new = <<>>,
                                !.res = "reload", !.reloaded = TRUE,
                                !.was = [len |-> Page_len(solo.p), free |-> solo.p.free,
                                         available_rows |-> Page_available_rows(solo.p)]]
    /\ UNCHANGED <<sync, cancelled, iter, faults, debug, file, db, lock, pc, req, cur,
                   acct, ret, appended, opens, calls, out>>

NextPage ==
    \/ PageNew
    \/ \E buf \in BufSet : PageFromBytes(buf)
    \/ \E row \in RowSet : PageInsert(row)
    \/ PageReload

SpecPage == InitCommon /\ [][NextPage]_vars

(* the number of slots up to the last whole slot of a buffer whose length   *)
(* prefix is not zero, 0 if there is none                                   *)
LastOccupied(buf) ==
    LET whole == { i \in 1..Len(buf.data) : i * ROW_SIZE <= buf.len }
        occ == { i \in whole : buf.data[i].size # 0 }
    IN  IF occ = {} THEN 0 ELSE CHOOSE i \in occ : \A j \in occ : j <= i

(* C24: for any byte vector, Page::from_bytes sets free to 4096 minus the   *)
(* end of the last slot whose length prefix is not zero, and to 4096 when   *)
(* no slot is occupied.                                                     *)
C24_FreeAfterLastOccupied ==
    solo.res = "from_bytes"
        => solo.p.free = PAGE_SIZE - LastOccupied(solo.buf) * ROW_SIZE

(* C25: starting from an empty page, each successful insert decreases       *)
(* available_rows() by exactly 1 from floor(4096 / R), and rows() yields    *)
(* exactly the inserted payloads in insertion order.  available_rows() is   *)
(* a count: a negative value here stands for a wrapped one.                 *)
C25_InsertCountsDown ==
    (solo.built /\ ~solo.reloaded /\ solo.res \in {"new", "from_bytes", "ok"})
        => /\ Page_available_rows(solo.p) = SlotsPerPage - Len(solo.new)
           /\ Page_available_rows(solo.p) >= 0
           /\ Page_rows(solo.p) = solo.new

(* C26: for a page p built by inserts, Page::from_bytes(p.as_ref()) has the *)
(* len, free and available_rows of p, and the rows inserted into the        *)
(* rebuilt page come after the rows it had: rows() yields the old rows      *)
(* followed by the new ones.                                                *)
C26_RebuildKeepsPage ==
    (solo.built /\ solo.reloaded /\ solo.res \in {"reload", "ok"})
        => /\ solo.res = "reload" =>
                /\ Page_len(solo.p) = solo.was.len
                /\ solo.p.free = solo.was.free
                /\ Page_available_rows(solo.p) = solo.was.available_rows
           /\ Page_rows(solo.p) = solo.old \o solo.new
           /\ Len(solo.old) * ROW_SIZE = solo.was.len

(* two rows were inserted, the page was rebuilt from its bytes and two more *)
(* rows were inserted                                                       *)
C26_Witness ==
    /\ solo.built /\ solo.reloaded /\ solo.res = "ok"
    /\ Len(solo.old) = 2 /\ Len(solo.new) = 2

----------------------------------------------------------------------------
(* The HTTP boundary of rinha-espora-server: POST /clientes/:id/transacoes *)

(* the ids of the account table; the model has the one account of the file *)
AccountIds == {1}

RequestIds == {1, 6}

(* Account::transact inserting the row of a Debit before the limit check *)
Account_transact_insertfirst(a, d, f, tx, dbg) ==
    LET b == NewBalance(a.balance, tx, Limit, dbg)
        row == <<IF b.res = "limit" THEN Wrap(a.balance - tx.value) ELSE b.val, tx>>
        r == Db_insert(d, f, row, dbg)
    IN  IF b.res = "panic" THEN [res |-> b.res, acct |-> a, db |-> d, file |-> f, row |-> <<>>]
        ELSE IF r.res # "ok"
          THEN [res |-> r.res, acct |-> a, db |-> r.db, file |-> f, row |-> <<>>]
        ELSE IF b.res = "limit"
          THEN [res |-> b.res, acct |-> a, db |-> r.db, file |-> r.file, row |-> <<>>]
        ELSE [res |-> "ok", db |-> r.db, file |-> r.file, row |-> row,
              acct |-> [a EXCEPT !.balance = b.val,
                                 !.transactions = RingBuffer_push_front(a.transactions, tx)]]

(* Account::transact of the cached ledger as a function of the account *)
Account_transact(a, d, f, tx, dbg) ==
    LET b == NewBalance(a.balance, tx, Limit, dbg)
        row == <<b.val, tx>>
        r == Db_insert(d, f, row, dbg)
    IN  IF b.res # "ok" THEN [res |-> b.res, acct |-> a, db |-> d, file |-> f, row |-> <<>>]
        ELSE IF r.res # "ok"
          THEN [res |-> r.res, acct |-> a, db |-> r.db, file |-> f, row |-> <<>>]
        ELSE [res |-> "ok", db |-> r.db, file |-> r.file, row |-> row,
              acct |-> [a EXCEPT !.balance = b.val,
                                 !.transactions = RingBuffer_push_front(a.transactions, tx)]]

(* the status that create_transaction answers with; a panic of the handler  *)
(* answers with none                                                        *)
StatusOf(res) ==
    CASE res = "unknown" -> "404"
      [] res = "ok"      -> "200"
      [] res = "panic"   -> "none"
      [] OTHER           -> "422"

CreateTransaction(h, id, tx) ==
    /\ db[h].open /\ acct[h].mode = "server"
    /\ calls.total < MaxTx
    /\ calls' = [total |-> calls.total + 1,
                 session |-> [calls.session EXCEPT ![h] = @ + 1]]
    /\ IF id \notin AccountIds
         THEN /\ ret' = [ret EXCEPT ![h] = [op |-> "post", res |-> StatusOf("unknown"),
                                            val |-> 0, nth |-> id]]
              /\ out' = [out EXCEPT ![h] = [NoOut EXCEPT !.kind = "unknown"]]
              /\ UNCHANGED <<req, db, file, acct, appended>>
       ELSE LET t == Account_transact(acct[h], db[h], file, tx, debug)
            IN  /\ req' = [req EXCEPT ![h] = tx]
                /\ db' = [db EXCEPT ![h] = t.db]
                /\ file' = t.file
                /\ acct' = [acct EXCEPT ![h] = t.acct]
                /\ appended' = IF t.res = "ok" THEN Append(appended, t.row) ELSE appended
                /\ out' = [out EXCEPT ![h] = [NoOut EXCEPT !.kind = t.res]]
                /\ ret' = [ret EXCEPT ![h] = [op |-> "post", res |-> StatusOf(t.res),
                                              val |-> IF t.res = "ok" THEN t.acct.balance
                                                      ELSE 0,
                                              nth |-> id]]
    /\ UNCHANGED <<sync, cancelled, solo, iter, faults, debug, lock, pc, cur, opens>>

NextHttp ==
    \/ AccountOpen(1, "server")
    \/ DbClose(1)
    \/ \E id \in RequestIds, tx \in TxSet : CreateTransaction(1, id, tx)

SpecHttp == InitCommon /\ [][NextHttp]_vars

(* C27: a POST for an id that is not in the account table is answered with  *)
(* 404; a POST whose transact fails for any reason is answered with 422; a  *)
(* POST that succeeds is answered with a saldo equal to the balance_after   *)
(* of the row just stored.                                                  *)
C27_PostStatus ==
    ret[1].op = "post" =>
        /\ ret[1].nth \notin AccountIds => ret[1].res = "404"
        /\ (ret[1].nth \in AccountIds /\ out[1].kind # "ok") => ret[1].res = "422"
        /\ (ret[1].nth \in AccountIds /\ out[1].kind = "ok")
              => (ret[1].res = "200" /\ ret[1].val = LastBalance(file))

----------------------------------------------------------------------------
(* One instance of the cached ledger with persist failures *)

(* Account::transact of the cached ledger when the fsync of db.insert fails *)
(* (a Debit over the limit is rejected before the insert)                   *)
CachedTransactSyncFail(h, tx) ==
    /\ db[h].open /\ acct[h].mode = "server"
    /\ calls.total < MaxTx
    /\ LET b == NewBalance(acct[h].balance, tx, Limit, debug)
           row == <<b.val, tx>>
           r == Db_insert_syncfail(db[h], file, row, debug)
       IN  /\ b.res = "ok"
           /\ db' = [db EXCEPT ![h] = r.db]
           /\ file' = r.file
           /\ faults' = IF r.res = "error" THEN faults \cup {row} ELSE faults
           /\ ret' = [ret EXCEPT ![h] = [op |-> "transact", res |-> r.res, val |-> 0,
                                         nth |-> calls.session[h] + 1]]
    /\ req' = [req EXCEPT ![h] = tx]
    /\ calls' = [total |-> calls.total + 1,
                 session |-> [calls.session EXCEPT ![h] = @ + 1]]
    /\ UNCHANGED <<sync, cancelled, solo, iter, debug, lock, pc, cur, acct, appended,
                   opens, out>>

NextMirror ==
    \/ AccountOpen(1, "server")
    \/ \E tx \in TxSet : CreateTransaction(1, 1, tx)
    \/ \E tx \in TxSet : CachedTransactSyncFail(1, tx)

SpecMirror == InitCommon /\ [][NextMirror]_vars

(* C28: after any sequence of transact calls on one cached ledger, accepted *)
(* rejected or failed in persistence, the cached balance is the             *)
(* balance_after of the last row of the file (0 if none) and the ring holds *)
(* the transactions of the last min(10, m) rows, newest first.              *)
C28_MirrorFollowsFile ==
    (db[1].open /\ acct[1].mode = "server")
        => /\ acct[1].balance = LastBalance(file)
           /\ acct[1].transactions = NewestFirst(file)

RowsOf(rows) == { rows[i] : i \in 1..Len(rows) }

----------------------------------------------------------------------------
(* Transactions of any sign: Transaction.value is an i64 that no code checks *)

TxSetSigned == [value : {-3, 0, 1}, kind : {"Credit", "Debit"}]

NextSigned ==
    \/ AccountOpen(1, "server")
    \/ DbClose(1)
    \/ \E tx \in TxSetSigned : CreateTransaction(1, 1, tx)

SpecSigned == InitCommon /\ [][NextSigned]_vars

(* C29: for an account with limit L >= 0 every balance_after stored by an   *)
(* accepted transaction is at least -L, whatever the signs of the values.   *)
C29_BalanceFloor ==
    \A x \in RowsOf(Db_rows(file)) : x[1] >= -Limit

----------------------------------------------------------------------------
(* The interval policy when appends stop *)

(* a Db built with sync_write_interval(d), d > 0: the caller appends when   *)
(* it chooses to, the clock runs on its own; nothing else in the store      *)
(* runs. Appends are issued while the clock can still pass the end of the   *)
(* running interval, so that every append is followed by a time at which    *)
(* more than d has passed since the last fsync.                             *)
NextInterval ==
    \/ DbBuild(1, "interval_1")
    \/ DbClose(1)
    \/ Tick
    \/ /\ sync.last_sync + sync.sync_writes.d < MaxClock
       /\ DbInsertBuilt(1, NextRow)

(* wall time always passes; appends are the caller's and are not forced *)
FairInterval == InitCommon /\ [][NextInterval]_vars /\ WF_vars(Tick)

(* the last append that returned Ok wrote its page without an fsync *)
LastAppendUnsynced ==
    /\ sync.cfg = "interval_1"
    /\ Len(sync.log) > 0
    /\ sync.log[Len(sync.log)] = <<"write">>

(* the last append that returned Ok ended with an fsync of the file *)
LastAppendSynced ==
    /\ Len(sync.log) > 0
    /\ sync.log[Len(sync.log)] = <<"write", "sync">>

----------------------------------------------------------------------------
(* Contention for the exclusive lock without end *)

(* a debit that no balance of the model covers *)
OverDebit == [value |-> I64_MAX, kind |-> "Debit"]

(* a further call of transact, beyond the counted ones, with a debit over   *)
(* the limit: a handle can go on calling for ever                           *)
TCallOver(h) ==
    /\ db[h].open /\ acct[h].mode = "embedded"
    /\ pc[h] = "idle"
    /\ pc' = [pc EXCEPT ![h] = "lock"]
    /\ req' = [req EXCEPT ![h] = OverDebit]
    /\ UNCHANGED <<sync, cancelled, solo, iter, faults, debug, file, db, lock, cur, acct,
                   ret, appended, opens, calls, out>>

(* handle 1 makes the counted calls, which append; handle 2 calls without   *)
(* end                                                                      *)
NextContend ==
    \/ \E h \in Handles : AccountOpen(h, "embedded")
    \/ TCall(1, [value |-> 1, kind |-> "Credit"])
    \/ TCallOver(2)
    \/ \E h \in Handles :
        \/ TLock(h)
        \/ TLockFail(h)
        \/ TRead(h)
        \/ TReadFail(h)
        \/ TApply(h)
        \/ TPersistFail(h)
        \/ TReturn(h)

(* the I/O steps of transact once the lock is held: each completes, with    *)
(* success or with an error                                                 *)
TStep(h) ==
    \/ TReadFail(h)
    \/ TRead(h)
    \/ TApply(h)
    \/ TPersistFail(h)
    \/ TReturn(h)

(* the steps of a lock holder complete, and a handle waiting for the lock   *)
(* gets it if the lock is free again and again (lock_writes may also fail,  *)
(* which nothing forces)                                                    *)
FairContend ==
    /\ InitCommon /\ [][NextContend]_vars
    /\ \A h \in Handles : WF_vars(TStep(h)) /\ SF_vars(TLock(h))

====
